---- MODULE Spec2Model ----
(***************************************************************************)
(* A model of msgspec_ext.settings.BaseSettings: the construction of a     *)
(* settings instance (field catalog, environment reading, merge,           *)
(* validation, schema generation), several constructions in one process,   *)
(* the pure functions they are made of, and msgspec_ext.types.SecretStr.   *)
(*                                                                         *)
(* Python strings are sequences of one-character strings, so that          *)
(* upper-casing, prefixing, parsing and containment are computed.          *)
(* Python values are records tagged by their type in the field t.          *)
(***************************************************************************)
EXTENDS Integers, Sequences, FiniteSets, TLC

\* ---------------------------------------------------------------- bounds

\* The largest number of annotated fields of a settings class.
MaxFields == 2

\* The longest field name and external name given to _get_env_name.
MaxNameLen == 2

\* The largest number of instances constructed one after the other.
MaxInstances == 2

\* The longest environment string given to _convert_env_value, apart from
\* the examples named with it.
MaxTextLen == 4

\* The longest secret given to SecretStr.validate, apart from the ones at
\* the length limits.
MaxSecretLen == 3

\* SecretStr.min_length and SecretStr.max_length
MinLength == 1

MaxLength == 4096

\* ------------------------------------------------------------ characters

LowerLetters ==
  <<"a","b","c","d","e","f","g","h","i","j","k","l","m",
    "n","o","p","q","r","s","t","u","v","w","x","y","z">>

UpperLetters ==
  <<"A","B","C","D","E","F","G","H","I","J","K","L","M",
    "N","O","P","Q","R","S","T","U","V","W","X","Y","Z">>

Digits == <<"0","1","2","3","4","5","6","7","8","9">>

\* The first index of c in seq, 0 when it is not there.
IndexIn(c, seq) ==
  IF \E k \in 1..Len(seq) : seq[k] = c
  THEN CHOOSE k \in 1..Len(seq) :
         seq[k] = c /\ \A j \in 1..(k - 1) : seq[j] # c
  ELSE 0

\* str.upper() on one character.
UpperChar(c) ==
  IF IndexIn(c, LowerLetters) > 0 THEN UpperLetters[IndexIn(c, LowerLetters)] ELSE c

\* str.lower() on one character.
LowerChar(c) ==
  IF IndexIn(c, UpperLetters) > 0 THEN LowerLetters[IndexIn(c, UpperLetters)] ELSE c

\* str.upper()
Upper(s) == [k \in 1..Len(s) |-> UpperChar(s[k])]

\* str.lower()
Lower(s) == [k \in 1..Len(s) |-> LowerChar(s[k])]

IsDigit(c) == IndexIn(c, Digits) > 0

DigitVal(c) == IndexIn(c, Digits) - 1

\* name in text, as Python's substring test.
Contains(text, name) ==
  \E k \in 0..(Len(text) - Len(name)) :
    \A j \in 1..Len(name) : text[k + j] = name[j]

StartsWith(s, p) == Len(s) >= Len(p) /\ SubSeq(s, 1, Len(p)) = p

EndsWith(s, p) == Len(s) >= Len(p) /\ SubSeq(s, Len(s) - Len(p) + 1, Len(s)) = p

\* str.strip() for the blank character.
RECURSIVE LStrip(_)
LStrip(s) == IF s # <<>> /\ Head(s) = " " THEN LStrip(Tail(s)) ELSE s

RECURSIVE RStrip(_)
RStrip(s) ==
  IF s # <<>> /\ s[Len(s)] = " " THEN RStrip(SubSeq(s, 1, Len(s) - 1)) ELSE s

Strip(s) == RStrip(LStrip(s))

\* ---------------------------------------------------------------- values

None == [t |-> "NoneType"]

IntV(n) == [t |-> "int", v |-> n]

BoolV(b) == [t |-> "bool", v |-> b]

StrV(s) == [t |-> "str", v |-> s]

\* A float m * 10^(-e), kept normal: e = 0 or m not a multiple of 10.
RECURSIVE NormFloat(_, _)
NormFloat(m, e) ==
  IF e > 0 /\ m % 10 = 0 THEN NormFloat(m \div 10, e - 1) ELSE <<m, e>>

FloatV(m, e) == [t |-> "float", v |-> NormFloat(m, e)]

\* float('nan'), float('inf'), float('-inf')
FloatSpecial(w) == [t |-> "float", v |-> <<w>>]

ListV(items) == [t |-> "list", v |-> items]

\* A dict as the sequence of its (key, value) pairs in insertion order.
DictV(pairs) == [t |-> "dict", v |-> pairs]

\* msgspec.NODEFAULT
NODEFAULT == [t |-> "NODEFAULT"]

\* A zero-argument callable and the value a call of it returns.
Callable(result) == [t |-> "callable", returns |-> result]

\* ----------------------------------------------------------------- types

\* A type annotation: its origin, its arguments, and whether it is written
\* with the typing module (typing.Optional[int], typing.List[str]) or is a
\* builtin (int, list, list[str]).
Builtin(origin) == [origin |-> origin, args |-> <<>>, typing |-> FALSE]

Typing(origin, args) == [origin |-> origin, args |-> args, typing |-> TRUE]

TBool == Builtin("bool")

TInt == Builtin("int")

TFloat == Builtin("float")

TStr == Builtin("str")

TList == Builtin("list")

TDict == Builtin("dict")

TOptional(T) == Typing("Optional", <<T>>)

TTypingList(T) == Typing("List", <<T>>)

TTypingDict(K, V) == Typing("Dict", <<K, V>>)

\* list[str], the builtin generic alias
TGenericList(T) == [origin |-> "list", args |-> <<T>>, typing |-> FALSE]

\* str(field_type) as a sequence of tokens whose boundaries are those of the
\* prefixes the code tests with startswith: "typing.", the origin, "[", the
\* arguments separated by ", ", "]". A bare class prints as <class 'int'>.
RECURSIVE TypeArgStr(_)
TypeArgStr(T) ==
  (IF T.typing THEN <<"typing.">> ELSE <<>>) \o <<T.origin>> \o
  (IF T.args = <<>> THEN <<>>
   ELSE <<"[">> \o TypeArgStr(T.args[1]) \o
        (IF Len(T.args) > 1 THEN <<", ">> \o TypeArgStr(T.args[2]) ELSE <<>>) \o
        <<"]">>)

TypeStr(T) ==
  IF ~T.typing /\ T.args = <<>>
  THEN <<"<class '", T.origin, "'>">>
  ELSE TypeArgStr(T)

\* ---------------------------------------------------------------- results

Ok(v) == [ok |-> TRUE, val |-> v]

\* A raised exception: its class and str(e).
Raise(exc, msg) == [ok |-> FALSE, exc |-> exc, msg |-> msg]

\* repr() of a str without quotes or backslashes in it.
Repr(s) == <<"'">> \o s \o <<"'">>

\* --------------------------------------------------------------- parsing

RECURSIVE DigitsValue(_)
DigitsValue(s) ==
  IF s = <<>> THEN 0
  ELSE 10 * DigitsValue(SubSeq(s, 1, Len(s) - 1)) + DigitVal(s[Len(s)])

AllDigits(s) == \A k \in 1..Len(s) : IsDigit(s[k])

HasSign(s) == s # <<>> /\ Head(s) \in {"+", "-"}

Unsigned(s) == IF HasSign(s) THEN Tail(s) ELSE s

Signed(s, n) == IF s # <<>> /\ Head(s) = "-" THEN 0 - n ELSE n

\* int(value) for a str: blanks around, an optional sign, decimal digits.
\* (Underscores between digits are outside the strings drawn here.)
ParseInt(value) ==
  LET s == Strip(value)
      body == Unsigned(s)
  IN IF body # <<>> /\ AllDigits(body)
     THEN Ok(IntV(Signed(s, DigitsValue(body))))
     ELSE Raise("ValueError",
                <<"invalid literal for int() with base 10: ">> \o Repr(value))

\* float(value) for a str: blanks around, an optional sign, then inf,
\* infinity or nan in any case, or digits with at most one point and at
\* least one digit. (Exponents are outside the strings drawn here.)
ParseFloat(value) ==
  LET s == Strip(value)
      body == Unsigned(s)
      low == Lower(body)
      dot == IndexIn(".", body)
      ip == IF dot > 0 THEN SubSeq(body, 1, dot - 1) ELSE body
      fp == IF dot > 0 THEN SubSeq(body, dot + 1, Len(body)) ELSE <<>>
  IN IF low \in {<<"i","n","f">>, <<"i","n","f","i","n","i","t","y">>}
     THEN Ok(FloatSpecial(IF HasSign(s) /\ Head(s) = "-" THEN "-inf" ELSE "inf"))
     ELSE IF low = <<"n","a","n">>
     THEN Ok(FloatSpecial("nan"))
     ELSE IF AllDigits(ip) /\ AllDigits(fp) /\ Len(ip) + Len(fp) > 0
     THEN Ok(FloatV(Signed(s, DigitsValue(ip \o fp)), Len(fp)))
     ELSE Raise("ValueError",
                <<"could not convert string to float: ">> \o Repr(value))

\* str.split(",")
RECURSIVE Split(_, _)
Split(s, sep) ==
  LET k == IndexIn(sep, s)
  IN IF k = 0 THEN <<s>>
     ELSE <<SubSeq(s, 1, k - 1)>> \o Split(SubSeq(s, k + 1, Len(s)), sep)

\* ------------------------------------------------------------------ JSON

\* msgspec.json.decode(value.encode()) without a type: a recursive-descent
\* decoder of null, true, false, integers, fractions, strings without
\* escapes, arrays and objects, with blanks allowed between the tokens.
\* JsonValue parses one value at the head of s and returns what follows it.
JsonFail == [ok |-> FALSE, val |-> None, rest |-> <<>>]

JsonOk(v, rest) == [ok |-> TRUE, val |-> v, rest |-> rest]

Drop(s, n) == SubSeq(s, n + 1, Len(s))

\* The longest prefix of s made of digits.
RECURSIVE DigitPrefix(_)
DigitPrefix(s) ==
  IF s # <<>> /\ IsDigit(Head(s)) THEN <<Head(s)>> \o DigitPrefix(Tail(s)) ELSE <<>>

JsonNumber(s) ==
  LET neg == s # <<>> /\ Head(s) = "-"
      body == IF neg THEN Tail(s) ELSE s
      ip == DigitPrefix(body)
      after == Drop(body, Len(ip))
      fp == IF after # <<>> /\ Head(after) = "." THEN DigitPrefix(Tail(after)) ELSE <<>>
      isFrac == after # <<>> /\ Head(after) = "."
      n == DigitsValue(ip \o fp)
  IN IF ip = <<>> \/ (Len(ip) > 1 /\ Head(ip) = "0") \/ (isFrac /\ fp = <<>>)
     THEN JsonFail
     ELSE IF isFrac
     THEN JsonOk(FloatV(IF neg THEN 0 - n ELSE n, Len(fp)), Drop(after, 1 + Len(fp)))
     ELSE JsonOk(IntV(IF neg THEN 0 - n ELSE n), after)

JsonString(s) ==
  LET body == Tail(s)
      q == IndexIn("\"", body)
  IN IF q = 0 THEN JsonFail
     ELSE JsonOk(StrV(SubSeq(body, 1, q - 1)), Drop(body, q))

RECURSIVE JsonValue(_)
RECURSIVE JsonItems(_, _)
RECURSIVE JsonMembers(_, _)

\* One value at the head of s0, after any blanks.
JsonValue(s0) ==
  LET s == LStrip(s0)
  IN IF s = <<>> THEN JsonFail
     ELSE IF StartsWith(s, <<"n","u","l","l">>) THEN JsonOk(None, Drop(s, 4))
     ELSE IF StartsWith(s, <<"t","r","u","e">>) THEN JsonOk(BoolV(TRUE), Drop(s, 4))
     ELSE IF StartsWith(s, <<"f","a","l","s","e">>) THEN JsonOk(BoolV(FALSE), Drop(s, 5))
     ELSE IF Head(s) = "\"" THEN JsonString(s)
     ELSE IF Head(s) = "[" THEN
       IF StartsWith(LStrip(Tail(s)), <<"]">>)
       THEN JsonOk(ListV(<<>>), Tail(LStrip(Tail(s))))
       ELSE JsonItems(Tail(s), <<>>)
     ELSE IF Head(s) = "{" THEN
       IF StartsWith(LStrip(Tail(s)), <<"}">>)
       THEN JsonOk(DictV(<<>>), Tail(LStrip(Tail(s))))
       ELSE JsonMembers(Tail(s), <<>>)
     ELSE JsonNumber(s)

JsonItems(s, acc) ==
  LET r == JsonValue(s)
      rest == LStrip(r.rest)
  IN IF ~r.ok \/ rest = <<>> THEN JsonFail
     ELSE IF Head(rest) = "," THEN JsonItems(Tail(rest), Append(acc, r.val))
     ELSE IF Head(rest) = "]" THEN JsonOk(ListV(Append(acc, r.val)), Tail(rest))
     ELSE JsonFail

JsonMembers(s0, acc) ==
  LET s == LStrip(s0)
      k == IF s # <<>> /\ Head(s) = "\"" THEN JsonString(s) ELSE JsonFail
      afterKey == LStrip(k.rest)
      colon == k.ok /\ afterKey # <<>> /\ Head(afterKey) = ":"
      r == IF colon THEN JsonValue(Tail(afterKey)) ELSE JsonFail
      rest == LStrip(r.rest)
  IN IF ~r.ok \/ rest = <<>> THEN JsonFail
     ELSE IF Head(rest) = ","
     THEN JsonMembers(Tail(rest), Append(acc, <<k.val, r.val>>))
     ELSE IF Head(rest) = "}"
     THEN JsonOk(DictV(Append(acc, <<k.val, r.val>>)), Tail(rest))
     ELSE JsonFail

\* msgspec.json.decode: the whole document is one value, blanks around it
\* allowed; anything else raises msgspec.DecodeError.
JsonDecode(value) ==
  LET r == JsonValue(Strip(value))
  IN IF r.ok /\ r.rest = <<>> THEN Ok(r.val)
     ELSE Raise("DecodeError", <<"JSON is malformed">>)

\* ------------------------------------------------------------ exceptions

\* The classes an exception is an instance of. json.JSONDecodeError is a
\* ValueError; msgspec.DecodeError and msgspec.ValidationError derive from
\* msgspec.MsgspecError, which derives from Exception only.
ExcBases(exc) ==
  CASE exc = "ValueError" -> {"ValueError"}
    [] exc = "JSONDecodeError" -> {"JSONDecodeError", "ValueError"}
    [] exc = "DecodeError" -> {"DecodeError", "MsgspecError"}
    [] exc = "ValidationError" -> {"ValidationError", "DecodeError", "MsgspecError"}
    [] OTHER -> {exc}

\* except (classes): whether the handler catches exc.
Catches(classes, exc) == ExcBases(exc) \cap classes # {}

\* -------------------------------------------------- _convert_env_value

TruthyStrings ==
  { <<"t","r","u","e">>, <<"1">>, <<"t">>, <<"y">>, <<"y","e","s">> }

\* isinstance(msgspec.inspect.type_info(field_type), StructType)
IsStructType(T) == T.origin = "Struct"

\* msgspec.json.decode(value.encode(), type=field_type) for a Struct type:
\* the document must be an object.
JsonDecodeStruct(value) ==
  LET r == JsonDecode(value)
  IN IF r.ok /\ r.val.t # "dict"
     THEN Raise("ValidationError", <<"Expected 'object', got '", r.val.t, "'">>)
     ELSE r

\* ConvertEnvValue with the Optional[int] and Optional[float] tests forgotten
ConvertEnvValue_NoOptional(value, field_type) ==
  IF field_type = TBool
  THEN Ok(BoolV(Lower(value) \in TruthyStrings))
  ELSE IF field_type = TInt
  THEN ParseInt(value)
  ELSE IF field_type = TFloat
  THEN ParseFloat(value)
  ELSE IF field_type = TList
          \/ StartsWith(TypeStr(field_type), <<"typing.", "List">>)
  THEN IF StartsWith(value, <<"[">>) /\ EndsWith(value, <<"]">>)
       THEN JsonDecode(value)
       ELSE Ok(ListV([k \in 1..Len(Split(value, ",")) |-> StrV(Split(value, ",")[k])]))
  ELSE IF field_type = TDict
          \/ StartsWith(TypeStr(field_type), <<"typing.", "Dict">>)
  THEN JsonDecode(value)
  ELSE IF IsStructType(field_type)
  THEN JsonDecodeStruct(value)
  ELSE Ok(StrV(value))

\* ConvertEnvValue with the bool test made without lower()
ConvertEnvValue_BoolExact(value, field_type) ==
  IF field_type = TBool
  THEN Ok(BoolV(value \in TruthyStrings))
  ELSE IF field_type = TInt
          \/ StartsWith(TypeStr(field_type), TypeStr(TOptional(TInt)))
  THEN ParseInt(value)
  ELSE IF field_type = TFloat
          \/ StartsWith(TypeStr(field_type), TypeStr(TOptional(TFloat)))
  THEN ParseFloat(value)
  ELSE IF field_type = TList
          \/ StartsWith(TypeStr(field_type), <<"typing.", "List">>)
  THEN IF StartsWith(value, <<"[">>) /\ EndsWith(value, <<"]">>)
       THEN JsonDecode(value)
       ELSE Ok(ListV([k \in 1..Len(Split(value, ",")) |-> StrV(Split(value, ",")[k])]))
  ELSE IF field_type = TDict
          \/ StartsWith(TypeStr(field_type), <<"typing.", "Dict">>)
  THEN JsonDecode(value)
  ELSE IF IsStructType(field_type)
  THEN JsonDecodeStruct(value)
  ELSE Ok(StrV(value))

ConvertEnvValue(value, field_type) ==
  IF field_type = TBool
  THEN Ok(BoolV(Lower(value) \in TruthyStrings))
  ELSE IF field_type = TInt
          \/ StartsWith(TypeStr(field_type), TypeStr(TOptional(TInt)))
  THEN ParseInt(value)
  ELSE IF field_type = TFloat
          \/ StartsWith(TypeStr(field_type), TypeStr(TOptional(TFloat)))
  THEN ParseFloat(value)
  ELSE IF field_type = TList
          \/ StartsWith(TypeStr(field_type), <<"typing.", "List">>)
  THEN IF StartsWith(value, <<"[">>) /\ EndsWith(value, <<"]">>)
       THEN JsonDecode(value)
       ELSE Ok(ListV([k \in 1..Len(Split(value, ",")) |-> StrV(Split(value, ",")[k])]))
  ELSE IF field_type = TDict
          \/ StartsWith(TypeStr(field_type), <<"typing.", "Dict">>)
  THEN JsonDecode(value)
  ELSE IF IsStructType(field_type)
  THEN JsonDecodeStruct(value)
  ELSE Ok(StrV(value))

\* ------------------------------------------------------- msgspec.convert

\* The name msgspec prints for a type in "Expected '...'".
ExpectedName(T) ==
  CASE T.origin \in {"list", "List"} -> "array"
    [] T.origin \in {"dict", "Dict"} -> "object"
    [] T.origin = "Optional" -> "null"
    [] OTHER -> T.origin

Mismatch(value, T) ==
  Raise("ValidationError", <<"Expected '", ExpectedName(T), "', got '", value.t, "'">>)

\* msgspec.convert(value, type) in its default strict mode: no coercion of
\* a str to a number, an int accepted for a float, containers converted
\* element by element when the annotation gives the element type.
RECURSIVE MsgspecConvert(_, _)
MsgspecConvert(value, T) ==
  CASE T.origin = "Optional" ->
         IF value = None THEN Ok(None) ELSE MsgspecConvert(value, T.args[1])
    [] T.origin = "float" ->
         IF value.t = "float" THEN Ok(value)
         ELSE IF value.t = "int" THEN Ok(FloatV(value.v, 0))
         ELSE Mismatch(value, T)
    [] T.origin \in {"bool", "int", "str"} ->
         IF value.t = T.origin THEN Ok(value) ELSE Mismatch(value, T)
    [] T.origin \in {"list", "List"} ->
         IF value.t # "list" THEN Mismatch(value, T)
         ELSE IF T.args = <<>> THEN Ok(value)
         ELSE LET rs == [k \in 1..Len(value.v) |-> MsgspecConvert(value.v[k], T.args[1])]
              IN IF \A k \in 1..Len(rs) : rs[k].ok
                 THEN Ok(ListV([k \in 1..Len(rs) |-> rs[k].val]))
                 ELSE rs[CHOOSE k \in 1..Len(rs) :
                           ~rs[k].ok /\ \A j \in 1..(k - 1) : rs[j].ok]
    [] T.origin \in {"dict", "Dict"} ->
         IF value.t # "dict" THEN Mismatch(value, T)
         ELSE IF T.args = <<>> THEN Ok(value)
         ELSE LET rs == [k \in 1..Len(value.v) |-> MsgspecConvert(value.v[k][2], T.args[2])]
              IN IF \A k \in 1..Len(rs) : rs[k].ok
                 THEN Ok(DictV([k \in 1..Len(rs) |-> <<value.v[k][1], rs[k].val>>]))
                 ELSE rs[CHOOSE k \in 1..Len(rs) :
                           ~rs[k].ok /\ \A j \in 1..(k - 1) : rs[j].ok]
    [] OTHER -> Mismatch(value, T)

\* ----------------------------------------------------------------- class

\* hasattr(cls, name) is False
NoAttr == [t |-> "<no attribute>"]

\* msgspec.inspect.Field(name=..., default=..., default_factory=...) as a
\* class attribute.
FieldObj(name, default, default_factory) ==
  [t |-> "Field", name |-> name, default |-> default,
   default_factory |-> default_factory]

\* SettingsConfigDict
SettingsConfigDict(env_file, case_sensitive, env_prefix) ==
  [env_file |-> env_file, env_file_encoding |-> "utf-8",
   case_sensitive |-> case_sensitive, env_prefix |-> env_prefix,
   env_nested_delimiter |-> "__"]

ModelConfigName == <<"m","o","d","e","l","_","c","o","n","f","i","g">>

\* ------------------------------------------------------ _get_fields_info

\* The catalog entry of one annotation (name, type) whose class attribute
\* is attr (NoAttr when the class has none).
FieldInfo(field_name, field_type, attr) ==
  LET field_value == IF attr = NoAttr THEN None ELSE attr
  IN IF field_value.t = "Field"
     THEN [key |-> field_name,
           type |-> field_type,
           field |-> field_value,
           name |-> IF field_value.name # <<>> THEN field_value.name ELSE field_name,
           has_default |-> field_value.default # NODEFAULT,
           default |-> IF field_value.default # NODEFAULT
                       THEN field_value.default ELSE None,
           has_default_factory |-> field_value.default_factory # NODEFAULT,
           default_factory |-> IF field_value.default_factory # NODEFAULT
                               THEN field_value.default_factory ELSE None]
     ELSE [key |-> field_name,
           type |-> field_type,
           field |-> None,
           name |-> field_name,
           has_default |-> attr # NoAttr,
           default |-> IF attr # NoAttr THEN field_value ELSE None,
           has_default_factory |-> FALSE,
           default_factory |-> None]

\* The annotations that are fields: model_config is skipped.
RECURSIVE FieldAnnotations(_)
FieldAnnotations(decls) ==
  IF decls = <<>> THEN <<>>
  ELSE (IF Head(decls).name = ModelConfigName THEN <<>> ELSE <<Head(decls)>>)
       \o FieldAnnotations(Tail(decls))

\* GetFieldsInfo with the catalog in reverse order
GetFieldsInfo_Reversed(decls) ==
  [k \in 1..Len(FieldAnnotations(decls)) |->
     FieldInfo(FieldAnnotations(decls)[Len(FieldAnnotations(decls)) + 1 - k].name,
               FieldAnnotations(decls)[Len(FieldAnnotations(decls)) + 1 - k].type,
               FieldAnnotations(decls)[Len(FieldAnnotations(decls)) + 1 - k].attr)]

\* self._fields, in the order of the annotations.
GetFieldsInfo(decls) ==
  [k \in 1..Len(FieldAnnotations(decls)) |->
     FieldInfo(FieldAnnotations(decls)[k].name,
               FieldAnnotations(decls)[k].type,
               FieldAnnotations(decls)[k].attr)]

\* --------------------------------------------------------- _get_env_name

\* GetEnvName with the case transformation applied after the prefix
GetEnvName_UpperAll(field_info, model_config) ==
  LET name == model_config.env_prefix \o field_info.name
  IN IF ~model_config.case_sensitive THEN Upper(name) ELSE name

GetEnvName(field_info, model_config) ==
  LET name == field_info.name
      cased == IF ~model_config.case_sensitive THEN Upper(name) ELSE name
  IN IF model_config.env_prefix # <<>>
     THEN model_config.env_prefix \o cased
     ELSE cased

\* ---------------------------------------------------- _get_field_default

\* The default of a field and whether its factory was called to get it.
GetFieldDefault(field_info) ==
  IF field_info.has_default_factory
  THEN [val |-> field_info.default_factory.returns, called |-> TRUE]
  ELSE IF field_info.has_default
  THEN [val |-> field_info.default, called |-> FALSE]
  ELSE [val |-> None, called |-> FALSE]

\* ------------------------------------------------------ _generate_schema

\* msgspec.json.schema(field type)
RECURSIVE TypeSchema(_)
TypeSchema(T) ==
  CASE T.origin = "bool" -> <<"boolean">>
    [] T.origin = "int" -> <<"integer">>
    [] T.origin = "float" -> <<"number">>
    [] T.origin = "str" -> <<"string">>
    [] T.origin = "Optional" -> <<"anyOf">> \o TypeSchema(T.args[1]) \o <<"null">>
    [] T.origin \in {"list", "List"} ->
         <<"array">> \o (IF T.args = <<>> THEN <<>> ELSE TypeSchema(T.args[1]))
    [] OTHER -> <<"object">>

\* RequiredNames with the factory forgotten
RECURSIVE RequiredNames_NoFactory(_)
RequiredNames_NoFactory(fs) ==
  IF fs = <<>> THEN <<>>
  ELSE (IF ~Head(fs).has_default THEN <<Head(fs).key>> ELSE <<>>)
       \o RequiredNames_NoFactory(Tail(fs))

\* The names of the fields with neither a default nor a default factory.
RECURSIVE RequiredNames(_)
RequiredNames(fs) ==
  IF fs = <<>> THEN <<>>
  ELSE (IF ~Head(fs).has_default /\ ~Head(fs).has_default_factory
        THEN <<Head(fs).key>> ELSE <<>>)
       \o RequiredNames(Tail(fs))

GenerateSchema(fs) ==
  [type |-> "object",
   properties |-> [k \in 1..Len(fs) |-> <<fs[k].key, TypeSchema(fs[k].type)>>],
   required |-> RequiredNames(fs)]

\* ---------------------------------------------------------------- inputs

\* A constructor argument or an environment variable that is not given.
Absent == [t |-> "<absent>"]

\* The declared name of the i-th annotation: aA, bB, cC, ...
FieldName(i) == <<LowerLetters[i], UpperLetters[i]>>

\* The element type behind Optional[...]
BaseType(T) == IF T.origin = "Optional" THEN T.args[1] ELSE T

\* The shapes of a field declaration: its annotation and its class
\* attribute. A Field's name is left empty or is the stem k, completed with
\* the field's letter when the class is built.
Shapes ==
  { [type |-> TInt, attr |-> NoAttr],
    [type |-> TInt, attr |-> IntV(7)],
    [type |-> TOptional(TInt), attr |-> None],
    [type |-> TFloat, attr |-> NoAttr],
    [type |-> TOptional(TFloat), attr |-> None],
    [type |-> TBool, attr |-> NoAttr],
    [type |-> TStr, attr |-> NoAttr],
    [type |-> TStr, attr |-> StrV(<<"x">>)],
    [type |-> TStr, attr |-> FieldObj(<<"k">>, NODEFAULT, NODEFAULT)],
    [type |-> TStr, attr |-> FieldObj(<<>>, NODEFAULT, Callable(StrV(<<"f">>)))],
    [type |-> TStr, attr |-> FieldObj(<<"k">>, StrV(<<"d">>), Callable(StrV(<<"f">>)))],
    [type |-> TDict, attr |-> FieldObj(<<>>, NODEFAULT, Callable(None))],
    [type |-> TDict, attr |-> FieldObj(<<>>, NODEFAULT, Callable(DictV(<< <<StrV(<<"f">>), IntV(0)>> >>)))],
    [type |-> TDict, attr |-> NoAttr],
    [type |-> TTypingList(TStr), attr |-> NoAttr] }

\* A constructor argument of the declared type, and one of another type.
GoodExplicit(T) ==
  CASE BaseType(T).origin = "int" -> IntV(1)
    [] BaseType(T).origin = "float" -> FloatV(25, 1)
    [] BaseType(T).origin = "bool" -> BoolV(TRUE)
    [] BaseType(T).origin = "str" -> StrV(<<"e">>)
    [] BaseType(T).origin \in {"list", "List"} -> ListV(<<StrV(<<"u">>)>>)
    [] OTHER -> DictV(<< <<StrV(<<"k">>), IntV(0)>> >>)

BadExplicit(T) ==
  IF BaseType(T).origin = "str" THEN IntV(3) ELSE StrV(<<"w">>)

Explicits(T) == {Absent, None, GoodExplicit(T), BadExplicit(T)}

\* The environment strings tried for a field of type T.
EnvTexts(T) ==
  CASE BaseType(T).origin = "int" -> { <<"1","2">>, <<" ","-","4">>, <<"1",".","5">> }
    [] BaseType(T).origin = "float" -> { <<"1",".","5","0">>, <<"3">>, <<"x","1">> }
    [] BaseType(T).origin = "bool" -> { <<"Y","e","s">>, <<"n","o">> }
    [] BaseType(T).origin = "str" -> { <<"h","i">> }
    [] BaseType(T).origin \in {"list", "List"} ->
         { <<"1",",","2">>, <<"[","1",",","2","]">>, <<"[","1",",","]">> }
    [] OTHER -> { <<"{","}">>, <<"n","u","l","l">>, <<"{">> }

\* An environment variable is absent, or set under the upper-cased or the
\* exact spelling of the field's external name.
Envs(T) ==
  {Absent} \cup
  { [t |-> "env", spelling |-> sp, text |-> x] : sp \in {"upper", "exact"}, x \in EnvTexts(T) }

\* One field with all it is given: declaration, argument, environment.
Case(sh, e, v) == [type |-> sh.type, attr |-> sh.attr, explicit |-> e, env |-> v]

WideCases ==
  UNION { { Case(sh, e, v) : e \in Explicits(sh.type), v \in Envs(sh.type) } : sh \in Shapes }

EnvUpper(x) == [t |-> "env", spelling |-> "upper", text |-> x]

\* The fields beside the one drawn from WideCases: one that resolves from
\* its argument, one from its factory, and one for each way to fail.
NarrowCases ==
  { Case([type |-> TStr, attr |-> NoAttr], StrV(<<"e">>), Absent),
    Case([type |-> TStr, attr |-> FieldObj(<<>>, NODEFAULT, Callable(StrV(<<"f">>)))],
         Absent, Absent),
    Case([type |-> TInt, attr |-> NoAttr], None, Absent),
    Case([type |-> TInt, attr |-> NoAttr], Absent, EnvUpper(<<"x","1">>)),
    Case([type |-> TInt, attr |-> IntV(7)], StrV(<<"w">>), Absent),
    Case([type |-> TStr, attr |-> StrV(<<"x">>)], Absent, Absent) }

Policies ==
  { SettingsConfigDict(None, FALSE, <<>>),
    SettingsConfigDict(StrV(<<".","e","n","v">>), FALSE, <<"A","P","P","_">>),
    SettingsConfigDict(None, TRUE, <<"A","p","_">>) }

\* The class attribute of the i-th field of a class built from case c.
AttrOf(c, i) ==
  IF c.attr.t = "Field" /\ c.attr.name # <<>>
  THEN [c.attr EXCEPT !.name = c.attr.name \o <<LowerLetters[i]>>]
  ELSE c.attr

DeclOf(c, i) == [name |-> FieldName(i), type |-> c.type, attr |-> AttrOf(c, i)]

\* The external name the deployment spells the variable of field i after.
ExternalName(c, i) ==
  IF c.attr.t = "Field" /\ c.attr.name # <<>> THEN AttrOf(c, i).name ELSE FieldName(i)

\* The key under which the environment holds the variable of field i.
SpelledKey(c, i, config) ==
  config.env_prefix \o
  (IF c.env.spelling = "upper" THEN Upper(ExternalName(c, i)) ELSE ExternalName(c, i))

\* The constructor's keyword arguments
ValuesOf(cases) ==
  LET given == { k \in 1..Len(cases) : cases[k].explicit # Absent }
  IN [nm \in { FieldName(k) : k \in given } |->
        cases[CHOOSE k \in given : FieldName(k) = nm].explicit]

\* os.environ, as far as the fields' variables go
EnvironOf(cases, config) ==
  LET given == { k \in 1..Len(cases) : cases[k].env # Absent }
  IN [key \in { SpelledKey(cases[k], k, config) : k \in given } |->
        cases[CHOOSE k \in given : SpelledKey(cases[k], k, config) = key].env.text]

\* ----------------------------------------------------------------- state

VARIABLES
  cls,            \* the settings class: its annotations with their class
                  \* attributes (decls) and its model_config
  values,         \* the keyword arguments of BaseSettings(**values)
  environ,        \* os.environ
  pc,             \* where the construction is
  i,              \* the index of the field a loop is at
  dotenv_loaded,  \* whether load_dotenv was called
  fields,         \* self._fields
  env_vars,       \* the dict _get_env_vars builds
  final_values,   \* {**values, **env_vars}
  attrs,          \* the instance's own attributes, set by setattr
  schema,         \* self._schema
  error,          \* the exception that ended the construction
  factory_calls,  \* per field, how often its default factory was called
  ret,            \* what the method called on the instance returned
  heap,           \* the objects created so far by default factories and
                  \* by msgspec.convert, in the order of their creation
  refs,           \* per attribute of the instance that refers to such an
                  \* object, the position of the object in heap
  instances       \* the instances constructed earlier in the process

vars ==
  <<cls, values, environ, pc, i, dotenv_loaded, fields, env_vars,
    final_values, attrs, schema, error, factory_calls, ret, heap, refs,
    instances>>

NoError == [exc |-> "none", msg |-> <<>>, raised_in |-> "none"]

EmptyDict == [k \in {} |-> None]

\* dict.get(key), None when the key is not there
Get(d, key) == IF key \in DOMAIN d THEN d[key] ELSE None

\* d[key] = v
Put(d, key, v) == [k \in DOMAIN d \cup {key} |-> IF k = key THEN v ELSE d[k]]

\* {**a, **b}
MergeDicts(a, b) ==
  [k \in DOMAIN a \cup DOMAIN b |-> IF k \in DOMAIN b THEN b[k] ELSE a[k]]

Init ==
  \E n \in 1..MaxFields, w \in 1..MaxFields, config \in Policies, wc \in WideCases :
  \E nc \in [1..n -> NarrowCases] :
    LET cases == [k \in 1..n |-> IF k = w THEN wc ELSE nc[k]]
    IN /\ w <= n
       /\ nc[w] = CHOOSE c \in NarrowCases : TRUE
       /\ cls = [decls |-> [k \in 1..n |-> DeclOf(cases[k], k)],
                 model_config |-> config]
       /\ values = ValuesOf(cases)
       /\ environ = EnvironOf(cases, config)
       /\ pc = "load_env_files"
       /\ i = 0
       /\ dotenv_loaded = FALSE
       /\ fields = <<>>
       /\ env_vars = EmptyDict
       /\ final_values = EmptyDict
       /\ attrs = EmptyDict
       /\ schema = None
       /\ error = NoError
       /\ factory_calls = EmptyDict
       /\ heap = <<>>
       /\ refs = EmptyDict
       /\ instances = <<>>
       /\ ret = None

\* --------------------------------------------------------------- actions

\* _load_env_files: load_dotenv is called when env_file is set and the
\* file exists.
LoadEnvFiles ==
  /\ pc = "load_env_files"
  /\ \E exists \in BOOLEAN :
       /\ (cls.model_config.env_file = None => ~exists)
       /\ dotenv_loaded' = (cls.model_config.env_file # None /\ exists)
  /\ pc' = "get_fields_info"
  /\ UNCHANGED <<cls, values, environ, i, fields, env_vars, final_values,
                 attrs, schema, error, factory_calls, ret,
                 heap, refs, instances>>

\* self._fields = self._get_fields_info()
GetFields ==
  /\ pc = "get_fields_info"
  /\ fields' = GetFieldsInfo(cls.decls)
  /\ factory_calls' = [k \in { GetFieldsInfo(cls.decls)[j].key :
                                 j \in 1..Len(GetFieldsInfo(cls.decls)) } |-> 0]
  /\ pc' = "get_env_vars"
  /\ i' = 1
  /\ UNCHANGED <<cls, values, environ, dotenv_loaded, env_vars, final_values,
                 attrs, schema, error, ret,
                 heap, refs, instances>>

\* The exception _get_env_vars raises when converting the variable env_name
\* raised r: a ValueError or json.JSONDecodeError is wrapped, anything else
\* propagates as it is.
EnvError(env_name, r) ==
  IF Catches({"ValueError", "JSONDecodeError"}, r.exc)
  THEN [exc |-> "ValueError",
        msg |-> <<"Error parsing environment variable ">> \o env_name
                \o <<": ">> \o r.msg,
        raised_in |-> "_get_env_vars"]
  ELSE [exc |-> r.exc, msg |-> r.msg, raised_in |-> "_get_env_vars"]

\* One iteration of the loop of _get_env_vars.
GetEnvVar ==
  /\ pc = "get_env_vars"
  /\ i <= Len(fields)
  /\ LET env_name == GetEnvName(fields[i], cls.model_config)
         r == ConvertEnvValue(environ[env_name], fields[i].type)
     IN IF env_name \notin DOMAIN environ
        THEN /\ i' = i + 1
             /\ UNCHANGED <<env_vars, pc, error>>
        ELSE IF r.ok
        THEN /\ env_vars' = Put(env_vars, fields[i].key, r.val)
             /\ i' = i + 1
             /\ UNCHANGED <<pc, error>>
        ELSE /\ error' = EnvError(env_name, r)
             /\ pc' = "aborted"
             /\ UNCHANGED <<env_vars, i>>
  /\ UNCHANGED <<cls, values, environ, dotenv_loaded, fields, final_values,
                 attrs, schema, factory_calls, ret,
                 heap, refs, instances>>

\* final_values = {**values, **env_vars}
Merge ==
  /\ pc = "get_env_vars"
  /\ i > Len(fields)
  /\ final_values' = MergeDicts(values, env_vars)
  /\ pc' = "validate_and_set_values"
  /\ i' = 1
  /\ UNCHANGED <<cls, values, environ, dotenv_loaded, fields, env_vars,
                 attrs, schema, error, factory_calls, ret,
                 heap, refs, instances>>

\* SelectValue with the defaults served to the first instance only
SelectValue_FirstOnly(field_info, given) ==
  LET dflt == GetFieldDefault(field_info)
  IN [value |-> IF given = None /\ instances = <<>> THEN dflt.val ELSE given,
      called |-> given = None /\ instances = <<>> /\ dflt.called]

\* SelectValue with None taken as a value: no fall through to the default
SelectValue_NoneGiven(field_info, given) ==
  [value |-> given, called |-> FALSE]

\* value = values.get(field_name), and the default when that is None:
\* the value the field resolves to and whether the factory was called.
SelectValue(field_info, given) ==
  LET dflt == GetFieldDefault(field_info)
  IN [value |-> IF given = None THEN dflt.val ELSE given,
      called |-> given = None /\ dflt.called]

\* IsRequired with the factory forgotten
IsRequired_NoFactory(field_info) == ~field_info.has_default

\* not has_default and not has_default_factory, the test before raising
\* "Missing required field".
IsRequired(field_info) ==
  ~field_info.has_default /\ ~field_info.has_default_factory

\* The exception raised when msgspec.convert raised r for field_name.
ValidationErrorOf(field_name, r) ==
  IF Catches({"ValidationError"}, r.exc)
  THEN [exc |-> "ValueError",
        msg |-> <<"Validation error for field ">> \o field_name
                \o <<": ">> \o r.msg,
        raised_in |-> "_validate_and_set_values"]
  ELSE [exc |-> r.exc, msg |-> r.msg, raised_in |-> "_validate_and_set_values"]

MissingError(field_name) ==
  [exc |-> "ValueError",
   msg |-> <<"Missing required field: ">> \o field_name,
   raised_in |-> "_validate_and_set_values"]

\* Outcome with a failed validation swallowed instead of raised
Outcome_Swallow(field_info, value) ==
  LET r == MsgspecConvert(value, field_info.type)
  IN IF value # None
     THEN IF r.ok
          THEN [do |-> "set", val |-> r.val, error |-> NoError]
          ELSE [do |-> "skip", val |-> None, error |-> NoError]
     ELSE IF IsRequired(field_info)
     THEN [do |-> "raise", val |-> None, error |-> MissingError(field_info.key)]
     ELSE [do |-> "skip", val |-> None, error |-> NoError]

\* Outcome with arguments outside the catalog refused
Outcome_Forbid(field_info, value) ==
  LET r == MsgspecConvert(value, field_info.type)
  IN IF \E nm \in DOMAIN final_values :
          \A k \in 1..Len(fields) : fields[k].key # nm
     THEN [do |-> "raise", val |-> None,
           error |-> [exc |-> "TypeError", msg |-> <<"unexpected argument">>,
                      raised_in |-> "_validate_and_set_values"]]
     ELSE IF value # None
     THEN IF r.ok
          THEN [do |-> "set", val |-> r.val, error |-> NoError]
          ELSE [do |-> "raise", val |-> None,
                error |-> ValidationErrorOf(field_info.key, r)]
     ELSE IF IsRequired(field_info)
     THEN [do |-> "raise", val |-> None, error |-> MissingError(field_info.key)]
     ELSE [do |-> "skip", val |-> None, error |-> NoError]

\* What one iteration of the loop of _validate_and_set_values does with
\* the selected value: set the attribute, raise, or leave the field unset.
Outcome(field_info, value) ==
  LET r == MsgspecConvert(value, field_info.type)
  IN IF value # None
     THEN IF r.ok
          THEN [do |-> "set", val |-> r.val, error |-> NoError]
          ELSE [do |-> "raise", val |-> None,
                error |-> ValidationErrorOf(field_info.key, r)]
     ELSE IF IsRequired(field_info)
     THEN [do |-> "raise", val |-> None, error |-> MissingError(field_info.key)]
     ELSE [do |-> "skip", val |-> None, error |-> NoError]

\* NewObject with an equal object created earlier handed out again
NewObject_Shared(objects, value) ==
  IF \E id \in 1..Len(objects) : objects[id] = value
  THEN [id |-> CHOOSE id \in 1..Len(objects) : objects[id] = value,
        heap |-> objects]
  ELSE [id |-> Len(objects) + 1, heap |-> Append(objects, value)]

\* The creation of an object: field_info["default_factory"]() returns a new
\* object on every call, and msgspec.convert builds a new list or dict.
NewObject(objects, value) ==
  [id |-> Len(objects) + 1, heap |-> Append(objects, value)]

\* The objects one iteration creates and the one the attribute refers to
\* (id 0: an object that existed before the construction). A factory that
\* returns None creates nothing; a str, a number or a bool passes through
\* msgspec.convert as the object it is.
Created(objects, sel, out) ==
  LET made == IF sel.called /\ sel.value # None
              THEN NewObject(objects, sel.value)
              ELSE [id |-> 0, heap |-> objects]
  IN IF out.do = "set" /\ out.val.t \in {"list", "dict"}
     THEN NewObject(made.heap, out.val)
     ELSE made

\* One iteration of the loop of _validate_and_set_values.
ValidateField ==
  /\ pc = "validate_and_set_values"
  /\ i <= Len(fields)
  /\ LET field_name == fields[i].key
         sel == SelectValue(fields[i], Get(final_values, field_name))
         out == Outcome(fields[i], sel.value)
         obj == Created(heap, sel, out)
     IN /\ factory_calls' =
             IF sel.called
             THEN [factory_calls EXCEPT ![field_name] = @ + 1]
             ELSE factory_calls
        /\ heap' = obj.heap
        /\ refs' = IF out.do = "set" /\ obj.id > 0
                   THEN Put(refs, field_name, obj.id)
                   ELSE refs
        /\ IF out.do = "set"
           THEN /\ attrs' = Put(attrs, field_name, out.val)
                /\ i' = i + 1
                /\ UNCHANGED <<pc, error>>
           ELSE IF out.do = "raise"
           THEN /\ error' = out.error
                /\ pc' = "aborted"
                /\ UNCHANGED <<attrs, i>>
           ELSE /\ i' = i + 1
                /\ UNCHANGED <<attrs, pc, error>>
  /\ UNCHANGED <<cls, values, environ, dotenv_loaded, fields, env_vars,
                 final_values, schema, ret,
                 instances>>

\* StoreSchema without waiting for the end of the validation loop
StoreSchema_Early ==
  /\ pc = "validate_and_set_values"
  /\ schema' = GenerateSchema(fields)
  /\ pc' = "done"
  /\ UNCHANGED <<cls, values, environ, i, dotenv_loaded, fields, env_vars,
                 final_values, attrs, error, factory_calls, ret,
                 heap, refs, instances>>

\* self._schema = self._generate_schema(), and __init__ returns.
StoreSchema ==
  /\ pc = "validate_and_set_values"
  /\ i > Len(fields)
  /\ schema' = GenerateSchema(fields)
  /\ pc' = "done"
  /\ UNCHANGED <<cls, values, environ, i, dotenv_loaded, fields, env_vars,
                 final_values, attrs, error, factory_calls, ret,
                 heap, refs, instances>>

\* hasattr(self, name): the instance has the attribute, or its class has.
HasAttr(decls, own, name) ==
  \/ name \in DOMAIN own
  \/ \E k \in 1..Len(decls) : decls[k].name = name /\ decls[k].attr # NoAttr

\* getattr(self, name): the instance's attribute before the class's.
GetAttr(decls, own, name) ==
  IF name \in DOMAIN own THEN own[name]
  ELSE decls[CHOOSE k \in 1..Len(decls) : decls[k].name = name].attr

\* model_dump()
ModelDump(decls, fs, own) ==
  [name \in { fs[k].key : k \in { j \in 1..Len(fs) : HasAttr(decls, own, fs[j].key) } }
     |-> GetAttr(decls, own, name)]

\* A call of model_dump() on the constructed instance.
CallModelDump ==
  /\ pc = "done"
  /\ ret' = [t |-> "dict", v |-> ModelDump(cls.decls, fields, attrs)]
  /\ pc' = "dumped"
  /\ UNCHANGED <<cls, values, environ, i, dotenv_loaded, fields, env_vars,
                 final_values, attrs, schema, error, factory_calls,
                 heap, refs, instances>>

Next ==
  \/ LoadEnvFiles
  \/ GetFields
  \/ GetEnvVar
  \/ Merge
  \/ ValidateField
  \/ StoreSchema
  \/ CallModelDump

Spec == Init /\ [][Next]_vars

\* ------------------------------------------------------- claims: helpers

NFields == Len(cls.decls)

Decl(k) == cls.decls[k]

\* The declared name of the k-th field
NameOf(k) == cls.decls[k].name

InfoOf(k) == FieldInfo(Decl(k).name, Decl(k).type, Decl(k).attr)

\* The environment key the construction looks the k-th field up under
KeyOf(k) == GetEnvName(InfoOf(k), cls.model_config)

EnvGiven(k) == KeyOf(k) \in DOMAIN environ

EnvResult(k) == ConvertEnvValue(environ[KeyOf(k)], Decl(k).type)

ExplicitGiven(k) == NameOf(k) \in DOMAIN values

Completed == pc \in {"done", "dumped"}

Aborted == pc = "aborted"

\* By its declaration, the field has neither a default nor a factory.
DeclaredRequired(k) ==
  \/ Decl(k).attr = NoAttr
  \/ /\ Decl(k).attr.t = "Field"
     /\ Decl(k).attr.default = NODEFAULT
     /\ Decl(k).attr.default_factory = NODEFAULT

MissingMsg(k) == <<"Missing required field: ">> \o NameOf(k)

\* ------------------------------------------------------------------- C1

\* C1 (as claimed): on a constructed instance, a field given both as a
\* constructor argument (a valid one, not None) and through its environment
\* variable holds the constructor argument.
C1_ExplicitBeatsEnvironment ==
  Completed =>
    \A k \in 1..NFields :
      (/\ ExplicitGiven(k)
       /\ values[NameOf(k)] # None
       /\ MsgspecConvert(values[NameOf(k)], Decl(k).type).ok
       /\ EnvGiven(k))
      => /\ NameOf(k) \in DOMAIN attrs
         /\ attrs[NameOf(k)] = MsgspecConvert(values[NameOf(k)], Decl(k).type).val

\* ------------------------------------------------------------------- C2

\* C2 (as claimed): when the construction has ended, every required field
\* that neither an argument nor an environment variable supplies has
\* aborted it with the missing-required-field error naming that field, and
\* that error never names a field with a default or a factory.
C2_Original ==
  (Completed \/ Aborted) =>
    \A k \in 1..NFields :
      /\ (DeclaredRequired(k) /\ ~ExplicitGiven(k) /\ ~EnvGiven(k))
           => (Aborted /\ error.msg = MissingMsg(k))
      /\ (Aborted /\ error.msg = MissingMsg(k)) => DeclaredRequired(k)

\* C2 (amended): a required field that neither an argument nor an
\* environment variable supplies keeps the construction from completing;
\* the validation loop never gets past it, and when the loop reaches it the
\* error is the missing-required-field error naming it (an environment
\* parse error or the failure of an earlier field aborts first); that
\* error never names a field with a default or a factory.
C2_MissingRequired ==
  \A k \in 1..NFields :
    /\ (DeclaredRequired(k) /\ ~ExplicitGiven(k) /\ ~EnvGiven(k))
         => /\ ~Completed
            /\ (pc = "validate_and_set_values" => i <= k)
            /\ (Aborted /\ error.raised_in = "_validate_and_set_values")
                 => /\ i <= k
                    /\ (i = k => /\ error.exc = "ValueError"
                                  /\ error.msg = MissingMsg(k))
    /\ (Aborted /\ error.msg = MissingMsg(k)) => DeclaredRequired(k)

\* C2 witness: the second field is required and unsupplied, and the
\* construction aborted with the error naming it.
C2_Witness ==
  /\ Aborted
  /\ NFields = 2
  /\ DeclaredRequired(2) /\ ~ExplicitGiven(2) /\ ~EnvGiven(2)
  /\ error.msg = MissingMsg(2)
  /\ attrs # EmptyDict

\* ------------------------------------------------------------------- C3

\* The environment string of the k-th field is there and does not convert.
EnvFails(k) == EnvGiven(k) /\ ~EnvResult(k).ok

\* What the merge hands the validation loop for the k-th field
GivenOf(k) ==
  IF EnvGiven(k) /\ EnvResult(k).ok THEN EnvResult(k).val
  ELSE IF ExplicitGiven(k) THEN values[NameOf(k)]
  ELSE None

\* The k-th field fails validation or is required and missing.
ValFails(k) ==
  /\ ~EnvFails(k)
  /\ Outcome(InfoOf(k), SelectValue(InfoOf(k), GivenOf(k)).value).do = "raise"

Invalid(k) == EnvFails(k) \/ ValFails(k)

\* The first field of the catalog with property P
First(P(_)) == CHOOSE k \in 1..NFields : P(k) /\ \A j \in 1..(k - 1) : ~P(j)

\* The field whose processing raised the error
FailedName == fields[i].key

\* C3 (as claimed): the error that aborts a construction belongs to the
\* first invalid field in catalog order, whatever its kind of failure.
C3_Original ==
  Aborted => FailedName = NameOf(First(Invalid))

\* C3 (amended): environment strings are all converted before any field
\* is validated. When some environment string does not convert, the error
\* is that of the first such field in catalog order, raised by
\* _get_env_vars, even if an earlier field is missing or fails validation;
\* otherwise it is the validation or missing-field error of the first
\* failing field in catalog order. A construction with no invalid field
\* does not abort, and one with an invalid field does not complete.
C3_FirstFailure ==
  /\ Aborted =>
       IF \E k \in 1..NFields : EnvFails(k)
       THEN /\ error.raised_in = "_get_env_vars"
            /\ FailedName = NameOf(First(EnvFails))
            /\ error = EnvError(KeyOf(First(EnvFails)), EnvResult(First(EnvFails)))
       ELSE /\ error.raised_in = "_validate_and_set_values"
            /\ \E k \in 1..NFields : ValFails(k)
            /\ FailedName = NameOf(First(ValFails))
            /\ Contains(error.msg, NameOf(First(ValFails)))
  /\ Completed => \A k \in 1..NFields : ~Invalid(k)

\* C3 witness: the first field is required and missing, the second has an
\* environment string that does not parse, and the error is the second's.
C3_Witness ==
  /\ Aborted
  /\ NFields = 2
  /\ ValFails(1) /\ EnvFails(2)
  /\ FailedName = NameOf(2)
  /\ error.raised_in = "_get_env_vars"

\* ------------------------------------------------------------------- C4

\* The value the k-th field has from some source, None when it has none.
ValueOf(k) == SelectValue(InfoOf(k), GivenOf(k)).value

\* The names of the fields among 1..n that have a value.
Valued(n) == { NameOf(k) : k \in { j \in 1..n : ValueOf(j) # None } }

\* C4 (as claimed): an aborted construction has assigned no field and
\* stored no schema; a completed one has assigned every field that has a
\* value and stored the schema.
C4_Original ==
  /\ Aborted => (attrs = EmptyDict /\ schema = None)
  /\ Completed => (schema # None /\ Valued(NFields) \subseteq DOMAIN attrs)

\* C4 (amended): an aborted construction has stored no schema and returned
\* nothing, and the fields it has assigned are those before the failing
\* field in catalog order that have a value (none when the abort is in
\* _get_env_vars); a completed one has assigned exactly the fields that
\* have a value and has stored the schema.
C4_FailFast ==
  /\ Aborted =>
       /\ schema = None
       /\ ret = None
       /\ error # NoError
       /\ DOMAIN attrs =
            IF error.raised_in = "_get_env_vars" THEN {} ELSE Valued(i - 1)
  /\ Completed =>
       /\ schema # None
       /\ error = NoError
       /\ DOMAIN attrs = Valued(NFields)

\* C4 witness: an aborted construction that has assigned a field.
C4_Witness ==
  /\ Aborted
  /\ error.raised_in = "_validate_and_set_values"
  /\ i = 2
  /\ DOMAIN attrs = {NameOf(1)}
  /\ schema = None

\* ------------------------------------------------ _get_env_name, applied

\* The strings of at most n characters over the alphabet
StringsUpTo(alphabet, n) == UNION { [1..m -> alphabet] : m \in 0..n }

Debug == <<"d","e","b","u","g">>

\* The names given to _get_env_name: mixed-case names with digits and
\* underscores, and the name debug.
NameInputs == (StringsUpTo({"d", "B", "_", "1"}, MaxNameLen) \ {<<>>}) \cup {Debug}

\* The prefixes: none, upper case, mixed case, lower case.
PrefixInputs == { <<>>, <<"A","P","P","_">>, <<"A","p","_">>, <<"p">> }

\* The class attribute of the field: none, or a Field with or without an
\* external name.
NameAttrInputs ==
  {NoAttr} \cup
  { FieldObj(x, NODEFAULT, NODEFAULT) : x \in StringsUpTo({"d", "B"}, MaxNameLen) \cup {Debug} }

\* An instance whose catalog holds one field, before _get_env_name is
\* called for it.
InitName ==
  \E nm \in NameInputs, a \in NameAttrInputs, prefix \in PrefixInputs, cs \in BOOLEAN :
    /\ cls = [decls |-> <<[name |-> nm, type |-> TStr, attr |-> a]>>,
              model_config |-> SettingsConfigDict(None, cs, prefix)]
    /\ fields = GetFieldsInfo(<<[name |-> nm, type |-> TStr, attr |-> a]>>)
    /\ pc = "get_env_name"
    /\ i = 1
    /\ values = EmptyDict
    /\ environ = EmptyDict
    /\ dotenv_loaded = FALSE
    /\ env_vars = EmptyDict
    /\ final_values = EmptyDict
    /\ attrs = EmptyDict
    /\ schema = None
    /\ error = NoError
    /\ factory_calls = EmptyDict
    /\ heap = <<>>
    /\ refs = EmptyDict
    /\ instances = <<>>
    /\ ret = None

\* env_name = self._get_env_name(field_name)
CallGetEnvName ==
  /\ pc = "get_env_name"
  /\ ret' = StrV(GetEnvName(fields[i], cls.model_config))
  /\ pc' = "returned"
  /\ UNCHANGED <<cls, values, environ, i, dotenv_loaded, fields, env_vars,
                 final_values, attrs, schema, error, factory_calls,
                 heap, refs, instances>>

NextName == CallGetEnvName

SpecName == InitName /\ [][NextName]_vars

\* ------------------------------------------------------------------- C5

\* The external name of the only field, by its declaration
DeclaredExternalName ==
  IF Decl(1).attr.t = "Field" /\ Decl(1).attr.name # <<>>
  THEN Decl(1).attr.name
  ELSE Decl(1).name

\* C5: the environment key is the prefix, character for character as
\* configured, followed by the external name (the declared name when none
\* is set), each character of which is upper-cased iff the policy is not
\* case-sensitive; with prefix APP_ the field debug gives APP_DEBUG, and
\* APP_debug when case-sensitive.
C5_EnvKey ==
  pc = "returned" =>
    LET key == ret.v
        prefix == cls.model_config.env_prefix
        name == DeclaredExternalName
        cs == cls.model_config.case_sensitive
    IN /\ Len(key) = Len(prefix) + Len(name)
       /\ \A j \in 1..Len(prefix) : key[j] = prefix[j]
       /\ \A j \in 1..Len(name) :
            key[Len(prefix) + j] = IF cs THEN name[j] ELSE UpperChar(name[j])
       /\ (prefix = <<"A","P","P","_">> /\ name = Debug /\ ~cs)
            => key = <<"A","P","P","_","D","E","B","U","G">>
       /\ (prefix = <<"A","P","P","_">> /\ name = Debug /\ cs)
            => key = <<"A","P","P","_","d","e","b","u","g">>
       /\ (prefix = <<"A","p","_">> /\ name = <<"d","B">> /\ ~cs)
            => key = <<"A","p","_","D","B">>

\* C5 witness: the field debug under the prefix APP_, not case-sensitive.
C5_Witness ==
  /\ pc = "returned"
  /\ Decl(1).name = Debug
  /\ Decl(1).attr = NoAttr
  /\ cls.model_config.env_prefix = <<"A","P","P","_">>
  /\ ~cls.model_config.case_sensitive
  /\ ret = StrV(<<"A","P","P","_","D","E","B","U","G">>)

\* ------------------------------------------------------------------- C6

\* By its declaration, the field has a default factory.
DeclaredFactory(k) ==
  Decl(k).attr.t = "Field" /\ Decl(k).attr.default_factory # NODEFAULT

\* The fixed default and the factory result the field is declared with.
DeclaredDefaults(k) ==
  IF Decl(k).attr.t = "Field"
  THEN (IF Decl(k).attr.default # NODEFAULT THEN {Decl(k).attr.default} ELSE {})
       \cup (IF DeclaredFactory(k) THEN {Decl(k).attr.default_factory.returns} ELSE {})
  ELSE IF Decl(k).attr # NoAttr THEN {Decl(k).attr} ELSE {}

\* A constructor argument or an environment variable gives the field a
\* value (None is no value).
Supplied(k) ==
  \/ ExplicitGiven(k) /\ values[NameOf(k)] # None
  \/ EnvGiven(k) /\ EnvResult(k).ok /\ EnvResult(k).val # None

\* How often the factory of the k-th field has been called
CallsOf(k) ==
  IF NameOf(k) \in DOMAIN factory_calls THEN factory_calls[NameOf(k)] ELSE 0

\* C6: in one construction the default factory of a field is called at
\* most once, not before the validation loop reaches the field, and only
\* when neither a constructor argument nor an environment variable gives
\* the field a value; when one does, the factory is not called and the
\* value assigned is not the default.
C6_LazyFactory ==
  \A k \in 1..NFields :
    /\ CallsOf(k) <= 1
    /\ CallsOf(k) = 1 =>
         /\ DeclaredFactory(k)
         /\ ~Supplied(k)
         /\ pc \in {"validate_and_set_values", "aborted", "done", "dumped"}
         /\ pc = "validate_and_set_values" => i > k
    /\ Supplied(k) =>
         /\ CallsOf(k) = 0
         /\ NameOf(k) \in DOMAIN attrs => attrs[NameOf(k)] \notin DeclaredDefaults(k)
    /\ (Completed /\ DeclaredFactory(k) /\ ~Supplied(k)) => CallsOf(k) = 1

\* ------------------------------------------------------------------- C7

\* The position in the catalog of the field named nm
IndexOfName(nm) == CHOOSE k \in 1..NFields : NameOf(k) = nm

\* C7: the required list of the schema of a constructed instance holds
\* exactly the fields declared with neither a default nor a factory, each
\* once, in catalog order, whatever values were supplied; for a required
\* int followed by a str with default "x" it is the first field alone.
C7_SchemaRequired ==
  Completed =>
    LET req == schema.required
    IN /\ { req[j] : j \in 1..Len(req) } = { NameOf(k) : k \in { n \in 1..NFields : DeclaredRequired(n) } }
       /\ \A j1, j2 \in 1..Len(req) :
            j1 < j2 => IndexOfName(req[j1]) < IndexOfName(req[j2])
       /\ (/\ NFields = 2
           /\ Decl(1).type = TInt /\ Decl(1).attr = NoAttr
           /\ Decl(2).type = TStr /\ Decl(2).attr = StrV(<<"x">>))
            => req = <<NameOf(1)>>

\* C7 witness: a required int given as an argument and a str left to its
\* default "x".
C7_Witness ==
  /\ Completed
  /\ NFields = 2
  /\ Decl(1).type = TInt /\ Decl(1).attr = NoAttr
  /\ Decl(2).type = TStr /\ Decl(2).attr = StrV(<<"x">>)
  /\ ExplicitGiven(1)
  /\ attrs[NameOf(2)] = StrV(<<"x">>)
  /\ schema.required = <<NameOf(1)>>

\* ------------------------------------------------------------------- C8

\* C8 (as claimed): model_dump() returns exactly the fields the resolution
\* set on the instance, each with its resolved value, and no None.
C8_DumpOnlySetFields ==
  pc = "dumped" =>
    /\ DOMAIN ret.v = DOMAIN attrs
    /\ \A nm \in DOMAIN ret.v : ret.v[nm] = attrs[nm] /\ ret.v[nm] # None

\* ------------------------------------------------------------------- C9

\* The field is declared int, Optional[int], float or Optional[float].
IsNumeric(k) ==
  Decl(k).type \in {TInt, TOptional(TInt), TFloat, TOptional(TFloat)}

\* int() or float() of the string, by the declared type
NumericParse(k, text) ==
  IF BaseType(Decl(k).type) = TInt THEN ParseInt(text) ELSE ParseFloat(text)

ParseErrorPrefix(k) == <<"Error parsing environment variable ">> \o KeyOf(k)

\* C9: for a field declared int, Optional[int], float or Optional[float]
\* whose environment variable is set: when the string does not parse as
\* that type the construction never reaches validation and aborts in
\* _get_env_vars, with the parse error of this variable when this is the
\* field that failed; when it parses and no argument is given, the
\* constructed instance holds the parsed number, of the declared type:
\* "12" is 12, " -4" is -4, "1.50" is 1.5 and "3" is the float 3.0, and
\* "1.5" is no int.
C9_NumericEnv ==
  \A k \in 1..NFields :
    (IsNumeric(k) /\ EnvGiven(k)) =>
      LET text == environ[KeyOf(k)]
          parsed == NumericParse(k, text)
      IN /\ ~parsed.ok =>
              /\ pc \notin {"validate_and_set_values", "done", "dumped"}
              /\ Aborted =>
                   /\ error.raised_in = "_get_env_vars"
                   /\ FailedName = NameOf(k) =>
                        /\ error.exc = "ValueError"
                        /\ StartsWith(error.msg, ParseErrorPrefix(k))
         /\ (parsed.ok /\ Completed /\ ~ExplicitGiven(k)) =>
              /\ NameOf(k) \in DOMAIN attrs
              /\ attrs[NameOf(k)] = parsed.val
              /\ attrs[NameOf(k)].t = BaseType(Decl(k).type).origin
         /\ (BaseType(Decl(k).type) = TInt) =>
              /\ text = <<"1","2">> => parsed = Ok([t |-> "int", v |-> 12])
              /\ text = <<" ","-","4">> => parsed = Ok([t |-> "int", v |-> 0 - 4])
              /\ text \in {<<"1",".","5">>, <<"x","1">>} => ~parsed.ok
         /\ (BaseType(Decl(k).type) = TFloat) =>
              /\ text = <<"1",".","5","0">> => parsed = Ok([t |-> "float", v |-> <<15, 1>>])
              /\ text = <<"3">> => parsed = Ok([t |-> "float", v |-> <<3, 0>>])
              /\ text = <<"x","1">> => ~parsed.ok

\* C9 witness: an Optional[float] field constructed from the string "3",
\* next to an int field whose string parsed too.
C9_Witness ==
  /\ Completed
  /\ \E k \in 1..NFields :
       /\ Decl(k).type = TOptional(TFloat)
       /\ EnvGiven(k) /\ environ[KeyOf(k)] = <<"3">>
       /\ ~ExplicitGiven(k)
       /\ attrs[NameOf(k)] = [t |-> "float", v |-> <<3, 0>>]

\* ------------------------------------------------------------------ C10

\* C10 (as claimed): the error raised for an environment string that could
\* not be converted names the environment key that was read and the
\* declared name of the field.
C10_ParseErrorNamesKeyAndField ==
  (Aborted /\ error.raised_in = "_get_env_vars") =>
    /\ Contains(error.msg, GetEnvName(fields[i], cls.model_config))
    /\ Contains(error.msg, FailedName)

\* ------------------------------------------- _convert_env_value, applied

\* The environment strings given to a bool field: every string over a few
\* letters in both cases, and words around the recognised ones.
BoolTexts ==
  StringsUpTo({"t", "T", "r", "u", "e", "E", "y", "s", "1"}, MaxTextLen)
  \cup { <<"Y","E","S">>, <<"T","R","U","E">>, <<" ","t">>, <<"t"," ">>,
         <<"n","o">>, <<"o","n">>, <<"0">>, <<"f","a","l","s","e">>,
         <<"t","r","u","e","s">> }

\* The environment strings given to a list field: every string over
\* brackets, commas, a digit, a letter and the blank, and longer examples.
ListTexts ==
  StringsUpTo({"[", "]", ",", "1", "a", " "}, MaxTextLen)
  \cup { <<"1",",","2",",","3">>, <<"[","1",",","2",",","3","]">>,
         <<"[","\"","a","\"","]">>, <<"a",","," ","b">> }

\* The annotations of a list field: list, typing.List[str], list[str].
ListTypes == { TList, TTypingList(TStr), TGenericList(TStr) }

ConvertInputs ==
  { <<TBool, x>> : x \in BoolTexts } \cup (ListTypes \X ListTexts)

\* An instance whose catalog holds one field, whose environment variable is
\* set, before _convert_env_value is called for it.
InitConvert ==
  \E inp \in ConvertInputs :
    LET decls == <<[name |-> FieldName(1), type |-> inp[1], attr |-> NoAttr]>>
        config == SettingsConfigDict(None, FALSE, <<>>)
    IN /\ cls = [decls |-> decls, model_config |-> config]
       /\ fields = GetFieldsInfo(decls)
       /\ environ = (GetEnvName(GetFieldsInfo(decls)[1], config) :> inp[2])
       /\ pc = "convert_env_value"
       /\ i = 1
       /\ values = EmptyDict
       /\ dotenv_loaded = FALSE
       /\ env_vars = EmptyDict
       /\ final_values = EmptyDict
       /\ attrs = EmptyDict
       /\ schema = None
       /\ error = NoError
       /\ factory_calls = EmptyDict
       /\ heap = <<>>
       /\ refs = EmptyDict
       /\ instances = <<>>
       /\ ret = None

\* converted_value = self._convert_env_value(env_value, field_type): ret is
\* the value returned or the exception raised.
CallConvertEnvValue ==
  /\ pc = "convert_env_value"
  /\ ret' = ConvertEnvValue(environ[GetEnvName(fields[i], cls.model_config)],
                            fields[i].type)
  /\ pc' = "converted"
  /\ UNCHANGED <<cls, values, environ, i, dotenv_loaded, fields, env_vars,
                 final_values, attrs, schema, error, factory_calls,
                 heap, refs, instances>>

NextConvert == CallConvertEnvValue

SpecConvert == InitConvert /\ [][NextConvert]_vars

\* The environment string of the only field
EnvText == environ[KeyOf(1)]

\* ------------------------------------------------------------------ C11

\* text is the word w up to the case of its letters
SameWord(text, w) ==
  /\ Len(text) = Len(w)
  /\ \A j \in 1..Len(w) : text[j] \in {w[j], UpperChar(w[j])}

\* C11: for a bool field the conversion of the environment string never
\* raises; it returns True iff the string is one of true, 1, t, y, yes up
\* to the case of its letters, and False for every other string, the empty
\* one included.
C11_BoolEnv ==
  (pc = "converted" /\ Decl(1).type = TBool) =>
    /\ ret.ok
    /\ ret.val.t = "bool"
    /\ ret.val.v = (\E w \in { <<"t","r","u","e">>, <<"1">>, <<"t">>, <<"y">>,
                              <<"y","e","s">> } : SameWord(EnvText, w))
    /\ EnvText = <<>> => ret.val = BoolV(FALSE)

\* C11 witness: the string YES was converted to True
C11_Witness ==
  /\ pc = "converted"
  /\ Decl(1).type = TBool
  /\ EnvText = <<"Y","E","S">>
  /\ ret = Ok(BoolV(TRUE))

\* ------------------------------------------------------------------ C12

\* ",".join(pieces)
RECURSIVE Join(_)
Join(pieces) ==
  IF pieces = <<>> THEN <<>>
  ELSE IF Len(pieces) = 1 THEN pieces[1]
  ELSE pieces[1] \o <<",">> \o Join(Tail(pieces))

\* The field is list-typed: list, typing.List[...] or list[...]
IsListTyped(T) == T.origin \in {"list", "List"}

\* C12 (as claimed): for a list-typed field, a string that starts with [
\* and ends with ] is converted as the JSON document it is, and every other
\* string is converted to the list of the substrings between its commas,
\* each a str, untrimmed: "1,2,3" gives ["1","2","3"] and "[1,2,3]" gives
\* [1,2,3].
C12_ListEnv ==
  (pc = "converted" /\ IsListTyped(Decl(1).type)) =>
    /\ (StartsWith(EnvText, <<"[">>) /\ EndsWith(EnvText, <<"]">>))
         => /\ ret = JsonDecode(EnvText)
            /\ ret.ok => ret.val.t = "list"
    /\ ~(StartsWith(EnvText, <<"[">>) /\ EndsWith(EnvText, <<"]">>))
         => /\ ret.ok
            /\ ret.val.t = "list"
            /\ \A k \in 1..Len(ret.val.v) :
                 /\ ret.val.v[k].t = "str"
                 /\ IndexIn(",", ret.val.v[k].v) = 0
            /\ Join([k \in 1..Len(ret.val.v) |-> ret.val.v[k].v]) = EnvText
    /\ EnvText = <<"1",",","2",",","3">>
         => ret = Ok(ListV(<<StrV(<<"1">>), StrV(<<"2">>), StrV(<<"3">>)>>))
    /\ EnvText = <<"[","1",",","2",",","3","]">>
         => ret = Ok(ListV(<<IntV(1), IntV(2), IntV(3)>>))

\* -------------------------------------------------------------- SecretStr

\* The mask _Secret shows instead of the secret
Mask == [k \in 1..10 |-> "*"]

SecretStrName == <<"S","e","c","r","e","t","S","t","r">>

\* The parameter of SecretStr.validate(value)
ValueParam == <<"v","a","l","u","e">>

\* The attribute SecretStr.__init__ sets
SecretAttr == <<"s","e","c","r","e","t">>

\* The values given to SecretStr.validate: short strings (the empty one,
\* ones with asterisks and quotes), the mask itself, strings at and beyond
\* max_length, and values that are not strings.
SecretInputs ==
  { StrV(x) : x \in StringsUpTo({"a", "b", "*", "'"}, MaxSecretLen) }
  \cup { StrV(Mask),
         StrV([k \in 1..MaxLength |-> "a"]),
         StrV([k \in 1..(MaxLength + 1) |-> "a"]),
         IntV(5), None, ListV(<<StrV(<<"a">>)>>) }

\* Before SecretStr.validate(value) is called
InitSecret ==
  \E value \in SecretInputs :
    /\ cls = [name |-> SecretStrName, min_length |-> MinLength,
              max_length |-> MaxLength]
    /\ values = (ValueParam :> value)
    /\ pc = "validate"
    /\ attrs = EmptyDict
    /\ error = NoError
    /\ ret = None
    /\ environ = EmptyDict
    /\ i = 0
    /\ dotenv_loaded = FALSE
    /\ fields = <<>>
    /\ env_vars = EmptyDict
    /\ final_values = EmptyDict
    /\ schema = None
    /\ factory_calls = EmptyDict
    /\ heap = <<>>
    /\ refs = EmptyDict
    /\ instances = <<>>

\* The exception SecretStr.validate raises for value, NoError when it
\* accepts it.
SecretStrCheck(value, klass) ==
  IF value.t # "str"
  THEN [exc |-> "ValidationError",
        msg |-> <<"Secret must be a string, got ", value.t>>,
        raised_in |-> "validate"]
  ELSE IF Len(value.v) < klass.min_length
  THEN [exc |-> "ValidationError",
        msg |-> <<"Secret must be at least ", klass.min_length, " character long">>,
        raised_in |-> "validate"]
  ELSE IF Len(value.v) > klass.max_length
  THEN [exc |-> "ValidationError",
        msg |-> <<"Secret length exceeds maximum of ", klass.max_length, " characters">>,
        raised_in |-> "validate"]
  ELSE NoError

\* SecretStr.validate(value): raises, or returns cls(value), whose
\* __init__ sets self.secret.
SecretStrValidate ==
  /\ pc = "validate"
  /\ LET e == SecretStrCheck(values[ValueParam], cls)
     IN IF e # NoError
        THEN /\ error' = e
             /\ pc' = "rejected"
             /\ UNCHANGED attrs
        ELSE /\ attrs' = (SecretAttr :> values[ValueParam])
             /\ pc' = "validated"
             /\ UNCHANGED error
  /\ UNCHANGED <<cls, values, environ, i, dotenv_loaded, fields, env_vars,
                 final_values, schema, factory_calls, ret,
                 heap, refs, instances>>

\* Secret_str with the secret shown
Secret_str_Leak(own) == own[SecretAttr]

\* _Secret.__str__
Secret_str(own) == StrV(Mask)

\* _Secret.__repr__
Secret_repr(klass, own) ==
  StrV(klass.name \o <<"(", "'">> \o Mask \o <<"'", ")">>)

\* _Secret.get_secret_value
GetSecretValue(own) == own[SecretAttr]

\* str(secret)
CallStr ==
  /\ pc = "validated"
  /\ ret' = Secret_str(attrs)
  /\ pc' = "str"
  /\ UNCHANGED <<cls, values, environ, i, dotenv_loaded, fields, env_vars,
                 final_values, attrs, schema, error, factory_calls,
                 heap, refs, instances>>

\* repr(secret)
CallRepr ==
  /\ pc = "validated"
  /\ ret' = Secret_repr(cls, attrs)
  /\ pc' = "repr"
  /\ UNCHANGED <<cls, values, environ, i, dotenv_loaded, fields, env_vars,
                 final_values, attrs, schema, error, factory_calls,
                 heap, refs, instances>>

\* secret.get_secret_value()
CallGetSecretValue ==
  /\ pc = "validated"
  /\ ret' = GetSecretValue(attrs)
  /\ pc' = "get_secret_value"
  /\ UNCHANGED <<cls, values, environ, i, dotenv_loaded, fields, env_vars,
                 final_values, attrs, schema, error, factory_calls,
                 heap, refs, instances>>

NextSecret ==
  \/ SecretStrValidate
  \/ CallStr
  \/ CallRepr
  \/ CallGetSecretValue

SpecSecret == InitSecret /\ [][NextSecret]_vars

\* ------------------------------------------------------------------ C16

\* The value given to SecretStr.validate
SecretInput == values[ValueParam]

PhaseStep ==
  /\ pc' # pc =>
       <<pc, pc'>> \in { <<"load_env_files", "get_fields_info">>,
                         <<"get_fields_info", "get_env_vars">>,
                         <<"get_env_vars", "validate_and_set_values">>,
                         <<"get_env_vars", "aborted">>,
                         <<"validate_and_set_values", "done">>,
                         <<"validate_and_set_values", "aborted">>,
                         <<"done", "dumped">> }
  /\ (pc' = pc /\ pc \in {"get_env_vars", "validate_and_set_values"}) => i' = i + 1
  /\ (pc' # pc /\ pc' \in {"get_env_vars", "validate_and_set_values"}) => i' = 1
  /\ (dotenv_loaded' # dotenv_loaded) => pc = "load_env_files"
  /\ (fields' # fields) => pc = "get_fields_info"
  /\ (schema' # schema) => (pc = "validate_and_set_values" /\ i > Len(fields))

\* What each phase has and has not done when the construction is at it
PhaseFacts ==
  /\ pc = "load_env_files" => ~dotenv_loaded
  /\ pc \in {"load_env_files", "get_fields_info"}
       => /\ fields = <<>>
          /\ env_vars = EmptyDict
  /\ pc \in {"load_env_files", "get_fields_info", "get_env_vars"}
       => /\ final_values = EmptyDict
          /\ attrs = EmptyDict
          /\ \A k \in 1..NFields : CallsOf(k) = 0
  /\ pc \in {"get_env_vars", "validate_and_set_values"}
       => /\ Len(fields) = NFields
          /\ \A k \in 1..NFields : fields[k].key = NameOf(k)
  /\ pc = "validate_and_set_values"
       => /\ error = NoError
          /\ DOMAIN attrs \subseteq { NameOf(k) : k \in 1..(i - 1) }
  /\ schema # None
       => /\ Completed
          /\ error = NoError
          /\ i = NFields + 1
  /\ ~Completed => schema = None

\* Every environment variable that is set is converted while the
\* environment is read, field by field in catalog order, before the merge.
EagerCoercion ==
  /\ pc = "get_env_vars"
       => DOMAIN env_vars \subseteq { NameOf(k) : k \in 1..(i - 1) }
  /\ (pc = "get_env_vars" /\ error = NoError)
       => \A k \in 1..(i - 1) : EnvGiven(k) => env_vars[NameOf(k)] = EnvResult(k).val
  /\ pc \in {"validate_and_set_values", "done", "dumped"}
       => /\ DOMAIN env_vars = { NameOf(k) : k \in { j \in 1..NFields : EnvGiven(j) } }
          /\ final_values = MergeDicts(values, env_vars)

\* No environment variable is converted before the validation loop has
\* selected the value of its field.
CoercedAfterSelection ==
  \A k \in 1..NFields :
    NameOf(k) \in DOMAIN env_vars
      => \/ Completed
         \/ pc = "validate_and_set_values" /\ i > k
         \/ Aborted /\ error.raised_in = "_validate_and_set_values" /\ i >= k

\* C15 (as claimed): the phases run in the order environment file, field
\* catalog, environment reading, per-field selection and validation in
\* catalog order, schema, each at most once; no environment variable is
\* converted before the value of its field has been selected; the schema is
\* generated only after every field has been resolved without error.
C15_Original ==
  [](PhaseFacts /\ CoercedAfterSelection) /\ [][PhaseStep]_vars

\* C15 (amended): the phases run in that order, each at most once, and the
\* schema is generated only after every field has been resolved without
\* error; every environment variable that is set is converted during the
\* environment reading, in catalog order, before the merge and before any
\* field's value is selected.
C15_PhaseOrder ==
  [](PhaseFacts /\ EagerCoercion) /\ [][PhaseStep]_vars

\* C15 witness: a construction with an environment file loaded and an
\* environment variable for the second of two fields has stored its schema.
C15_Witness ==
  /\ pc = "done"
  /\ NFields = 2
  /\ dotenv_loaded
  /\ EnvGiven(2)
  /\ NameOf(2) \in DOMAIN env_vars
  /\ DOMAIN attrs = {NameOf(1), NameOf(2)}
  /\ schema # None

\* ------------------------------------------------------------------ C17

\* The field is declared with both a fixed default and a default factory
DeclaredBoth(k) ==
  /\ Decl(k).attr.t = "Field"
  /\ Decl(k).attr.default # NODEFAULT
  /\ Decl(k).attr.default_factory # NODEFAULT

\* C17 (as claimed): a field declared with both a fixed default and a
\* default factory, given neither an argument nor an environment variable,
\* holds the fixed default on the constructed instance, and its factory has
\* not been called.
C17_FixedDefaultBeforeFactory ==
  \A k \in 1..NFields :
    (Completed /\ DeclaredBoth(k) /\ ~ExplicitGiven(k) /\ ~EnvGiven(k))
      => /\ NameOf(k) \in DOMAIN attrs
         /\ attrs[NameOf(k)] = Decl(k).attr.default
         /\ CallsOf(k) = 0

\* ------------------------------------------------------------------ C19

\* The k-th field is passed as None and has no environment variable
PassedNone(k) ==
  ExplicitGiven(k) /\ values[NameOf(k)] = None /\ ~EnvGiven(k)

\* The validation loop has gone past the k-th field
Past(k) == Completed \/ (pc = "validate_and_set_values" /\ i > k)

\* The default the field falls back to by its declaration: the factory's
\* result when it has a factory, else the fixed default, else None.
FallbackOf(k) ==
  IF DeclaredFactory(k) THEN Decl(k).attr.default_factory.returns
  ELSE IF Decl(k).attr = NoAttr THEN None
  ELSE IF Decl(k).attr.t = "Field"
  THEN (IF Decl(k).attr.default # NODEFAULT THEN Decl(k).attr.default ELSE None)
  ELSE Decl(k).attr

\* C19: None is no value at every step. A field passed as None (and
\* without an environment variable) is resolved as if it was not passed:
\* it gets its default or its factory's result, the factory being called.
\* A field whose default or factory result is None is left unassigned and
\* raises no validation error, whatever its type. A required field passed
\* as None stops the validation loop, which raises the
\* missing-required-field error naming it when it reaches the field.
C19_NoneIsNoValue ==
  \A k \in 1..NFields :
    /\ (PassedNone(k) /\ Past(k))
         => /\ ~DeclaredRequired(k)
            /\ DeclaredFactory(k) => CallsOf(k) = 1
            /\ FallbackOf(k) # None
                 => /\ NameOf(k) \in DOMAIN attrs
                    /\ attrs[NameOf(k)] = FallbackOf(k)
    /\ ((PassedNone(k) \/ (~ExplicitGiven(k) /\ ~EnvGiven(k)))
         /\ ~DeclaredRequired(k) /\ FallbackOf(k) = None)
         => /\ NameOf(k) \notin DOMAIN attrs
            /\ (Aborted /\ error.raised_in = "_validate_and_set_values") => i # k
    /\ (PassedNone(k) /\ DeclaredRequired(k))
         => /\ ~Past(k)
            /\ (Aborted /\ error.raised_in = "_validate_and_set_values" /\ i = k)
                 => (error.exc = "ValueError" /\ error.msg = MissingMsg(k))

\* C19 witness: of two fields passed as None, the first, a dict whose
\* factory returns None, was left unassigned, and the second, required,
\* aborted the construction with the missing-required-field error.
C19_Witness ==
  /\ Aborted
  /\ NFields = 2
  /\ PassedNone(1) /\ DeclaredFactory(1) /\ FallbackOf(1) = None
  /\ Decl(1).type = TDict
  /\ CallsOf(1) = 1
  /\ NameOf(1) \notin DOMAIN attrs
  /\ PassedNone(2) /\ DeclaredRequired(2)
  /\ error.msg = MissingMsg(2)

\* ------------------------------------------- several instances of a class

\* Constructor arguments whose names are not fields of the class: a name
\* no field has, and the external name of a first field declared with one.
UnknownArgs ==
  (<<"z","Z">> :> IntV(5)) @@ (<<"k","a">> :> StrV(<<"u">>))

\* The fields of the classes constructed more than once: one resolved
\* from its argument, one for each way to fail, fields with a factory (of
\* an immutable and of a mutable value, passed as None or not at all, with
\* a fixed default beside it), a field with an external name, and a field
\* whose only default is None.
PairCases ==
  { Case([type |-> TStr, attr |-> NoAttr], StrV(<<"e">>), Absent),
    Case([type |-> TInt, attr |-> NoAttr], None, Absent),
    Case([type |-> TInt, attr |-> NoAttr], Absent, EnvUpper(<<"x","1">>)),
    Case([type |-> TInt, attr |-> IntV(7)], StrV(<<"w">>), Absent),
    Case([type |-> TStr, attr |-> FieldObj(<<>>, NODEFAULT, Callable(StrV(<<"f">>)))],
         Absent, Absent),
    Case([type |-> TDict,
          attr |-> FieldObj(<<>>, NODEFAULT, Callable(DictV(<< <<StrV(<<"f">>), IntV(0)>> >>)))],
         Absent, Absent),
    Case([type |-> TDict,
          attr |-> FieldObj(<<>>, NODEFAULT, Callable(DictV(<< <<StrV(<<"f">>), IntV(0)>> >>)))],
         None, Absent),
    Case([type |-> TStr, attr |-> FieldObj(<<"k">>, StrV(<<"d">>), Callable(StrV(<<"f">>)))],
         Absent, Absent),
    Case([type |-> TStr, attr |-> FieldObj(<<"k">>, NODEFAULT, NODEFAULT)],
         StrV(<<"e">>), EnvUpper(<<"h","i">>)),
    Case([type |-> TOptional(TInt), attr |-> None], Absent, Absent) }

\* The first construction of an instance of a class in the process.
InitTwo ==
  \E n \in 1..MaxFields, config \in Policies, extra \in {EmptyDict, UnknownArgs} :
  \E cases \in [1..n -> PairCases] :
    /\ cls = [decls |-> [k \in 1..n |-> DeclOf(cases[k], k)],
              model_config |-> config]
    /\ values = MergeDicts(ValuesOf(cases), extra)
    /\ environ = EnvironOf(cases, config)
    /\ pc = "load_env_files"
    /\ i = 0
    /\ dotenv_loaded = FALSE
    /\ fields = <<>>
    /\ env_vars = EmptyDict
    /\ final_values = EmptyDict
    /\ attrs = EmptyDict
    /\ schema = None
    /\ error = NoError
    /\ factory_calls = EmptyDict
    /\ heap = <<>>
    /\ refs = EmptyDict
    /\ instances = <<>>
    /\ ret = None

\* The arguments whose names are fields of the class
KnownOnly(vals) ==
  [nm \in DOMAIN vals \cap { cls.decls[k].name : k \in 1..Len(cls.decls) } |-> vals[nm]]

\* The instance under construction, or constructed, as it is now: what it
\* was given, its attributes, its schema, what model_dump() returns, and
\* the error that ended its construction.
Current ==
  [values |-> values,
   attrs |-> attrs,
   refs |-> refs,
   schema |-> schema,
   dump |-> IF pc \in {"done", "dumped"}
            THEN [t |-> "dict", v |-> ModelDump(cls.decls, fields, attrs)]
            ELSE None,
   error |-> error,
   factory_calls |-> factory_calls]

\* BaseSettings(**values) is called again, with the same arguments or with
\* the arguments that name fields only, after the construction before it
\* has returned or raised. The class and the process environment are the
\* same: __init__ keeps nothing but self._fields and self._schema.
ConstructAgain ==
  /\ pc \in {"done", "dumped", "aborted"}
  /\ Len(instances) + 1 < MaxInstances
  /\ instances' = Append(instances, Current)
  /\ values' \in {values, KnownOnly(values)}
  /\ pc' = "load_env_files"
  /\ i' = 0
  /\ dotenv_loaded' = FALSE
  /\ fields' = <<>>
  /\ env_vars' = EmptyDict
  /\ final_values' = EmptyDict
  /\ attrs' = EmptyDict
  /\ schema' = None
  /\ error' = NoError
  /\ factory_calls' = EmptyDict
  /\ refs' = EmptyDict
  /\ ret' = None
  /\ UNCHANGED <<cls, environ, heap>>

\* A list or a dict after the owner of the instance has added to it
Mutated(obj) ==
  IF obj.t = "dict"
  THEN DictV(Append(obj.v, <<StrV(<<"m">>), IntV(1)>>))
  ELSE ListV(Append(obj.v, StrV(<<"m">>)))

\* The owner of the first instance changes, in place, a list or a dict one
\* of its attributes refers to.
MutateDefault ==
  /\ instances # <<>>
  /\ \E nm \in DOMAIN instances[1].refs :
       LET id == instances[1].refs[nm]
       IN /\ heap[id].t \in {"list", "dict"}
          /\ heap[id] = instances[1].attrs[nm]
          /\ heap' = [heap EXCEPT ![id] = Mutated(@)]
  /\ UNCHANGED <<cls, values, environ, pc, i, dotenv_loaded, fields, env_vars,
                 final_values, attrs, schema, error, factory_calls, ret, refs,
                 instances>>

NextTwo ==
  \/ Next
  \/ ConstructAgain
  \/ MutateDefault

SpecTwo == InitTwo /\ [][NextTwo]_vars

\* The instances whose construction has ended, in the order of their
\* construction
Ended ==
  instances \o (IF pc \in {"done", "dumped", "aborted"} THEN <<Current>> ELSE <<>>)

\* All instances, the one under construction included
AllInstances == instances \o <<Current>>

\* Two constructions ended alike: the same attributes, model_dump() and
\* schema(), or the same error.
SameOutcome(a, b) ==
  /\ a.attrs = b.attrs
  /\ a.dump = b.dump
  /\ a.schema = b.schema
  /\ a.error = b.error

FieldNames == { NameOf(k) : k \in 1..NFields }

\* ------------------------------------------------------------------ C13

\* C13: arguments whose names are not catalogued fields raise nothing and
\* change nothing: two constructions whose arguments agree on the fields
\* of the class end alike (the same attributes, model_dump() and schema(),
\* or the same error), and no attribute is set under such a name.
C13_UnknownArgsIgnored ==
  \A a \in 1..Len(Ended), b \in 1..Len(Ended) :
    /\ DOMAIN Ended[a].attrs \subseteq FieldNames
    /\ KnownOnly(Ended[a].values) = KnownOnly(Ended[b].values)
         => SameOutcome(Ended[a], Ended[b])

\* C13 witness: an instance constructed with two unknown arguments and one
\* constructed without them, each with its field set.
C13_Witness ==
  /\ Len(Ended) = 2
  /\ DOMAIN Ended[1].values \ FieldNames = {<<"z","Z">>, <<"k","a">>}
  /\ DOMAIN Ended[2].values \subseteq FieldNames
  /\ Ended[1].error = NoError
  /\ Ended[1].attrs # EmptyDict
  /\ Ended[2].attrs = Ended[1].attrs

\* ------------------------------------------------------------------ C14

\* The k-th field is given nothing in the construction of instance inst
NotGiven(inst, k) ==
  /\ ~EnvGiven(k)
  /\ NameOf(k) \in DOMAIN inst.values => inst.values[NameOf(k)] = None

====
